---- MODULE Spec2Model ----
(***************************************************************************)
(* A model of src/main.py: the line classifier (clean_text), the block     *)
(* segmenter (extract_data_from_txt), the aggregator                       *)
(* (calculate_total_value, calculate_percentages_and_distribution,         *)
(* format_brazilian_number) and the directory loop of main.                *)
(*                                                                         *)
(* Text is modelled as a sequence of one-character strings, so that        *)
(* startswith, in, strip, replace, split, join and the two regular         *)
(* expressions are computed character by character.                        *)
(*                                                                         *)
(* A Python float is modelled as an exact non-negative rational            *)
(* [num, den]; a float operation's rounding error (relative 2^-53) is not  *)
(* modelled.  Where the rounding of a decimal tie depends on the side on   *)
(* which the float lies, both outcomes are allowed (parameter tie_up).     *)
(***************************************************************************)
EXTENDS Integers, Sequences, FiniteSets, TLC

VARIABLES
    pc,                     \* position of the modelled run
    text,                   \* clean_text: the raw text of the first call
    lines,                  \* clean_text / extract_data_from_txt: lines
    pos,                    \* clean_text: lines consumed by the for loop
    cleaned_lines,          \* clean_text / extract_data_from_txt: cleaned_lines
    skip_until_next_person, \* clean_text: the skip flag
    kept,                   \* history: positions of lines the pass appended
    pass,                   \* 1: first clean_text call, 2: call on its output
    returned_text,          \* clean_text: the text returned by the last call
    first_text,             \* the text returned by the first call
    i,                      \* extract_data_from_txt: the cursor
    results,                \* extract_data_from_txt: results
    spans,                  \* history: cursor values at which a record was emitted
    steps,                  \* history: cursor values at each loop step
    data,                   \* records handed to calculate_percentages_and_distribution
    distribution_amount,    \* the amount to distribute, or None
    number,                 \* format_brazilian_number: number
    decimal_places,         \* format_brazilian_number: decimal_places
    formatted,              \* format_brazilian_number: the returned string
    pdf_files,              \* main: the documents of the directory
    file_idx,               \* main: documents the for loop has taken
    attempted               \* history: documents process_pdf_to_csv was called on

vars == << pc, text, lines, pos, cleaned_lines, skip_until_next_person, kept, pass,
           returned_text, first_text, i, results, spans, steps, data,
           distribution_amount, number, decimal_places, formatted,
           pdf_files, file_idx, attempted >>

cleanVars == << text, lines, pos, cleaned_lines, skip_until_next_person, kept, pass,
                returned_text, first_text >>
extractVars == << i, results, spans, steps >>
aggVars == << data, distribution_amount >>
formatVars == << number, decimal_places, formatted >>
mainVars == << pdf_files, file_idx, attempted >>

None == "None"

\* distribution_amount is None (no float has the denominator 0)
NoAmount == [num |-> 0, den |-> 0]

(***************************************************************************)
(* Characters and strings                                                  *)
(***************************************************************************)
Digits == {"0", "1", "2", "3", "4", "5", "6", "7", "8", "9"}

\* what str.strip() removes and what \s matches
Whitespace == {" ", "\t", "\r", "\n", "\f"}

\* the class [A-Za-zÀ-ÖØ-öø-ÿ] of person_pattern (the accented letters the
\* model's lines use stand for the two accented ranges)
Letters ==
    {"A", "B", "C", "D", "E", "F", "G", "H", "I", "J", "K", "L", "M", "N",
     "O", "P", "Q", "R", "S", "T", "U", "V", "W", "X", "Y", "Z",
     "a", "b", "c", "d", "e", "f", "g", "h", "i", "j", "k", "l", "m", "n",
     "o", "p", "q", "r", "s", "t", "u", "v", "w", "x", "y", "z",
     "á", "ã", "ç", "Ã", "Ç"}

StartsWith(s, p) == Len(p) <= Len(s) /\ SubSeq(s, 1, Len(p)) = p

\* p in s
Contains(s, p) ==
    \E k \in 1..(Len(s) - Len(p) + 1) : SubSeq(s, k, k + Len(p) - 1) = p

\* s.strip()
Strip(s) ==
    LET inner == {k \in 1..Len(s) : s[k] \notin Whitespace}
    IN  IF inner = {} THEN << >>
        ELSE LET lo == CHOOSE k \in inner : \A m \in inner : k <= m
                 hi == CHOOSE k \in inner : \A m \in inner : m <= k
             IN  SubSeq(s, lo, hi)

\* s.replace(c, '') for a one-character c
RECURSIVE RemoveChar(_, _)
RemoveChar(s, c) ==
    IF s = << >> THEN << >>
    ELSE IF s[1] = c THEN RemoveChar(Tail(s), c)
         ELSE << s[1] >> \o RemoveChar(Tail(s), c)

\* s.replace(c, d) for one-character c and d
ReplaceChar(s, c, d) == [k \in 1..Len(s) |-> IF s[k] = c THEN d ELSE s[k]]

\* text.split('\n')
RECURSIVE Split(_)
Split(s) ==
    LET nl == {k \in 1..Len(s) : s[k] = "\n"}
    IN  IF nl = {} THEN << s >>
        ELSE LET k == CHOOSE x \in nl : \A y \in nl : x <= y
             IN  << SubSeq(s, 1, k - 1) >> \o Split(SubSeq(s, k + 1, Len(s)))

\* '\n'.join(ls)
RECURSIVE Join(_)
Join(ls) ==
    IF ls = << >> THEN << >>
    ELSE IF Len(ls) = 1 THEN ls[1]
         ELSE ls[1] \o << "\n" >> \o Join(Tail(ls))

\* re.search(r'\d{6}', line)
HasSixDigits(line) ==
    \E k \in 1..(Len(line) - 5) : \A m \in k..(k + 5) : line[m] \in Digits

(***************************************************************************)
(* clean_text                                                              *)
(***************************************************************************)
PageMarker == << "-", "-", "-", " ", "P", "a", "g", "e" >>

CleanHeaders ==
    { << "R", "e", "l", "a", "ç", "ã", "o", " ", "A", "n", "u", "a", "l" >>,
      << "C", "O", "O", "P", "E", "R", "A", "T", "I", "V", "A" >>,
      << "R", "u", "b", "r", "i", "c", "a" >>,
      << "T", "R", "A", "B", "A", "L", "H", "A", "D", "O", "R" >>,
      << "P", "á", "g", "i", "n", "a" >> }

MonthHeader ==
    << "J", "A", "N", " ", "F", "E", "V", " ", "M", "A", "R", " ",
       "A", "B", "R", " ", "M", "A", "I", " ", "J", "U", "N", " ",
       "J", "U", "L", " ", "A", "G", "O", " ", "S", "E", "T", " ",
       "O", "U", "T", " ", "N", "O", "V", " ", "D", "E", "Z", " ",
       "T", "O", "T", "A", "L" >>

SubtotalMarker == << "T", "O", "T", "A", "L", "I", "Z", "A" >>

ReservedPrefix == << "2", "3", "9" >>

\* the five `continue` rules ahead of the subtotal rule
IsBoilerplate(line) ==
    \/ StartsWith(line, PageMarker)
    \/ \E header \in CleanHeaders : Contains(line, header)
    \/ StartsWith(line, << "_" >>)
    \/ Strip(line) = << >>
    \/ Contains(line, MonthHeader)
    \/ Strip(RemoveChar(Strip(line), "-")) = << >>

\* 'TOTALIZA' in line
HasSubtotalMarker(line) == Contains(line, SubtotalMarker)

\* IsNextPerson without the reserved-prefix test
IsNextPerson_AnyCode(line) == HasSixDigits(line)

\* re.search(r'\d{6}', line) and not line.startswith('239')
IsNextPerson(line) == HasSixDigits(line) /\ ~StartsWith(line, ReservedPrefix)

\* AppendCleaned appending the stripped line
AppendCleaned_Stripped(cleaned, line) == Append(cleaned, Strip(line))

\* cleaned_lines.append(line)
AppendCleaned(cleaned, line) == Append(cleaned, line)

\* one iteration of the for loop: the new flag, the new cleaned_lines and
\* whether the line was appended
CleanLoopBody(line, skip, cleaned) ==
    IF IsBoilerplate(line)
    THEN [skip |-> skip, cleaned |-> cleaned, appended |-> FALSE]
    ELSE IF HasSubtotalMarker(line)
    THEN [skip |-> TRUE, cleaned |-> cleaned, appended |-> FALSE]
    ELSE LET flag == IF IsNextPerson(line) THEN FALSE ELSE skip
         IN  IF flag
             THEN [skip |-> flag, cleaned |-> cleaned, appended |-> FALSE]
             ELSE [skip |-> flag, cleaned |-> AppendCleaned(cleaned, line),
                   appended |-> TRUE]

(***************************************************************************)
(* Numbers: a float is an exact rational [num |-> n, den |-> d], n >= 0,   *)
(* d > 0, in lowest terms                                                  *)
(***************************************************************************)
RECURSIVE GCD(_, _)
GCD(a, b) == IF b = 0 THEN a ELSE GCD(b, a % b)

Rat(n, d) == LET g == GCD(n, d) IN [num |-> n \div g, den |-> d \div g]

Zero == Rat(0, 1)

RatAdd(a, b) ==
    LET g == GCD(a.den, b.den)
    IN  Rat(a.num * (b.den \div g) + b.num * (a.den \div g),
            a.den * (b.den \div g))

RatMul(a, b) ==
    LET g1 == GCD(a.num, b.den)
        g2 == GCD(b.num, a.den)
    IN  IF a.num = 0 \/ b.num = 0 THEN Zero
        ELSE Rat((a.num \div g1) * (b.num \div g2),
                 (a.den \div g2) * (b.den \div g1))

\* a / b for b # 0
RatDiv(a, b) == RatMul(a, [num |-> b.den, den |-> b.num])

RatLeq(a, b) ==
    LET g == GCD(a.den, b.den)
    IN  a.num * (b.den \div g) <= b.num * (a.den \div g)

\* |a - b| <= e
RatWithin(a, b, e) == RatLeq(a, RatAdd(b, e)) /\ RatLeq(b, RatAdd(a, e))

RECURSIVE Pow10(_)
Pow10(n) == IF n = 0 THEN 1 ELSE 10 * Pow10(n - 1)

DigitChars == << "0", "1", "2", "3", "4", "5", "6", "7", "8", "9" >>

DigitValue(c) == CHOOSE v \in 0..9 : DigitChars[v + 1] = c

\* the value of a string of decimal digits ('' counts 0)
RECURSIVE DigitsToInt(_)
DigitsToInt(ds) ==
    IF ds = << >> THEN 0
    ELSE 10 * DigitsToInt(SubSeq(ds, 1, Len(ds) - 1)) + DigitValue(ds[Len(ds)])

\* the decimal digits of n >= 0, as digit values
RECURSIVE IntDigits(_)
IntDigits(n) ==
    IF n < 10 THEN << n >> ELSE Append(IntDigits(n \div 10), n % 10)

\* float(s) returns, for s made of digits, '.' and characters no float
\* literal has (no sign, exponent, underscore, inf or nan): digits with at
\* most one '.', and one digit at least; otherwise float(s) raises ValueError
IsFloatLiteral(s) ==
    /\ \A k \in 1..Len(s) : s[k] \in Digits \cup {"."}
    /\ Cardinality({k \in 1..Len(s) : s[k] = "."}) <= 1
    /\ \E k \in 1..Len(s) : s[k] \in Digits

\* float(s) for a float literal s
ParseFloat(s) ==
    LET dots == {k \in 1..Len(s) : s[k] = "."}
    IN  IF dots = {} THEN Rat(DigitsToInt(s), 1)
        ELSE LET d == CHOOSE k \in dots : TRUE
                 whole == SubSeq(s, 1, d - 1)
                 frac == SubSeq(s, d + 1, Len(s))
             IN  Rat(DigitsToInt(whole \o frac), Pow10(Len(frac)))

\* value_str = value.replace('.', '').replace(',', '.')
ValueStr(value) == ReplaceChar(RemoveChar(value, "."), ",", ".")

\* float(value_str) returns
Parses(value) == IsFloatLiteral(ValueStr(value))

\* value_float = float(value_str)
ParseValue(value) == ParseFloat(ValueStr(value))

\* item.get('value'): present and not the empty string
HasValue(item) == "value" \in DOMAIN item /\ item.value # << >>

(***************************************************************************)
(* calculate_total_value                                                   *)
(***************************************************************************)
\* the term the loop of calculate_total_value adds for one item
TotalTerm(item) ==
    IF HasValue(item) /\ Parses(item.value)
    THEN ParseValue(item.value)
    ELSE Zero

RECURSIVE calculate_total_value(_)
calculate_total_value(items) ==
    IF items = << >> THEN Zero
    ELSE RatAdd(calculate_total_value(SubSeq(items, 1, Len(items) - 1)),
                TotalTerm(items[Len(items)]))

(***************************************************************************)
(* format_brazilian_number                                                 *)
(***************************************************************************)
\* the first `places` decimals of r/den (0 <= r < den) and the remainder left
RECURSIVE FracDigits(_, _, _)
FracDigits(r, den, places) ==
    IF places = 0 THEN [digits |-> << >>, rem |-> r]
    ELSE LET rest == FracDigits((r * 10) % den, den, places - 1)
         IN  [digits |-> << (r * 10) \div den >> \o rest.digits,
              rem |-> rest.rem]

\* a string of digit values plus one in its last place
RECURSIVE Increment(_)
Increment(ds) ==
    IF ds = << >> THEN << 1 >>
    ELSE IF ds[Len(ds)] < 9
         THEN [ds EXCEPT ![Len(ds)] = ds[Len(ds)] + 1]
         ELSE Append(Increment(SubSeq(ds, 1, Len(ds) - 1)), 0)

RECURSIVE IsPowerOfTwo(_)
IsPowerOfTwo(n) == n = 1 \/ (n % 2 = 0 /\ IsPowerOfTwo(n \div 2))

ToChars(ds) == [k \in 1..Len(ds) |-> DigitChars[ds[k] + 1]]

\* f"{number:.{decimal_places}f}": the float's value rounded to the nearest
\* decimal.  A tie of a number a float holds exactly (a dyadic rational)
\* goes to the even digit; the float of any other number lies beside the tie,
\* above it when tie_up.
FixedPoint(q, places, tie_up) ==
    LET whole == IntDigits(q.num \div q.den)
        frac == FracDigits(q.num % q.den, q.den, places)
        trunc == whole \o frac.digits
        up == \/ 2 * frac.rem > q.den
              \/ /\ 2 * frac.rem = q.den
                 /\ IF IsPowerOfTwo(q.den) THEN trunc[Len(trunc)] % 2 = 1
                    ELSE tie_up
        all == IF up THEN Increment(trunc) ELSE trunc
        cut == Len(all) - places
    IN  IF places = 0 THEN ToChars(all)
        ELSE ToChars(SubSeq(all, 1, cut)) \o << "." >>
                 \o ToChars(SubSeq(all, cut + 1, Len(all)))

\* GroupDigits inserting the separator every 3rd position, the first included
RECURSIVE GroupDigits_NoGuard(_, _, _)
GroupDigits_NoGuard(integer_part, k, result) ==
    IF k = Len(integer_part) THEN result
    ELSE LET char == integer_part[Len(integer_part) - k]
             dotted == IF k % 3 = 0 THEN << "." >> \o result ELSE result
         IN  GroupDigits_NoGuard(integer_part, k + 1, << char >> \o dotted)

\* the loop `for i, char in enumerate(reversed(integer_part))` from i = k on
RECURSIVE GroupDigits(_, _, _)
GroupDigits(integer_part, k, result) ==
    IF k = Len(integer_part) THEN result
    ELSE LET char == integer_part[Len(integer_part) - k]
             dotted == IF k > 0 /\ k % 3 = 0 THEN << "." >> \o result
                       ELSE result
         IN  GroupDigits(integer_part, k + 1, << char >> \o dotted)

\* formatted.split('.')
SplitAtDot(s) ==
    LET dots == {k \in 1..Len(s) : s[k] = "."}
    IN  IF dots = {} THEN << s >>
        ELSE LET d == CHOOSE k \in dots : TRUE
             IN  << SubSeq(s, 1, d - 1), SubSeq(s, d + 1, Len(s)) >>

format_brazilian_number(q, places, tie_up) ==
    LET parts == SplitAtDot(FixedPoint(q, places, tie_up))
        integer_part == IF Len(parts[1]) > 3
                        THEN GroupDigits(parts[1], 0, << >>)
                        ELSE parts[1]
        decimal_part == IF Len(parts) > 1 THEN parts[2] ELSE << >>
    IN  IF decimal_part # << >>
        THEN integer_part \o << "," >> \o decimal_part
        ELSE integer_part

(***************************************************************************)
(* calculate_percentages_and_distribution                                  *)
(***************************************************************************)
ZeroPercentage == << "0", ",", "0", "0", "0", "0", "0", "0" >>

ZeroTotal == << "0", ",", "0", "0" >>

Hundred == Rat(100, 1)

\* Degraded leaving the total fields out
Degraded_NoTotal(item, amount) ==
    ("percentage" :> ZeroPercentage) @@ ("percentage_float" :> Zero) @@ item

\* the except branch: zeroed derived fields
Degraded(item, amount) ==
    LET p == ("percentage" :> ZeroPercentage)
                 @@ ("percentage_float" :> Zero) @@ item
    IN  IF amount # NoAmount
        THEN ("total" :> ZeroTotal) @@ ("total_float" :> Zero) @@ p
        ELSE p

\* Percentage without the factor 100
Percentage_Fraction(value_float, total_value) ==
    RatDiv(value_float, total_value)

\* percentage = (value_float / total_value) * 100, for total_value # 0
Percentage(value_float, total_value) ==
    RatMul(RatDiv(value_float, total_value), Hundred)

\* Distribution without the division by 100
Distribution_NoDivision(percentage, amount) == RatMul(percentage, amount)

\* distribution = (percentage / 100) * distribution_amount
Distribution(percentage, amount) ==
    RatMul(RatDiv(percentage, Hundred), amount)

\* the body of `for item in data` for one item; a float division by a zero
\* total_value raises ZeroDivisionError
Enriched(item, total_value, amount, tie_up) ==
    IF ~HasValue(item) THEN item
    ELSE IF ~Parses(item.value) THEN Degraded(item, amount)
    ELSE IF total_value.num = 0 THEN Degraded(item, amount)
    ELSE LET percentage == Percentage(ParseValue(item.value), total_value)
             p == ("percentage" :>
                       format_brazilian_number(percentage, 6, tie_up))
                      @@ ("percentage_float" :> percentage) @@ item
         IN  IF amount # NoAmount
             THEN LET distribution == Distribution(percentage, amount)
                  IN  ("total" :>
                           format_brazilian_number(distribution, 2, tie_up))
                          @@ ("total_float" :> distribution) @@ p
             ELSE p

\* ties[k]: the side on which record k's floats lie of a decimal tie
calculate_percentages_and_distribution(items, amount, ties) ==
    IF items = << >> THEN items
    ELSE LET total_value == calculate_total_value(items)
         IN  [k \in 1..Len(items) |->
                 Enriched(items[k], total_value, amount, ties[k])]

\* ---- the lines the model's raw texts are made of ----
LnSubtotal == << "T", "O", "T", "A", "L", "I", "Z", "A" >>

LnReserved == << "2", "3", "9", "0", "0", "1", " ", "f" >>

LnPerson == << "1", "2", "3", "4", "5", "6", " ", "J" >>

LnPlain == << "x" >>

\* a boilerplate line that carries a 6-digit sequence
LnHeaderCode ==
    << "R", "u", "b", "r", "i", "c", "a", " ", "1", "1", "1", "1", "1",
       "1" >>

\* a separator line that carries the subtotal marker
LnRuleSubtotal == << "_", "T", "O", "T", "A", "L", "I", "Z", "A" >>

\* an indented underscore: it does not start with '_'
LnIndentedRule == << " ", "_" >>

\* a subtotal line that carries a 6-digit sequence
LnSubtotalCode ==
    << "T", "O", "T", "A", "L", "I", "Z", "A", " ", "2", "2", "2", "2",
       "2", "2" >>

CleanPool ==
    { LnSubtotal, LnReserved, LnPerson, LnPlain, LnHeaderCode,
      LnRuleSubtotal, LnIndentedRule, LnSubtotalCode }

ExSubtotal ==
    << "T", "O", "T", "A", "L", "I", "Z", "A", "C", "A", "O", " ", "X" >>

ExReserved == << "2", "3", "9", "0", "0", "1", " ", "f", "o", "o" >>

ExPerson ==
    << "1", "2", "3", "4", "5", "6", " ", "J", "a", "n", "e", " ", "D",
       "o", "e", " ", "A", "N", "A", "L", "I", "S", "T", "A" >>

ExValue == << "1", "0", "0", ",", "5", "0" >>

ExExtra == << "e", "x", "t", "r", "a" >>

\* the skip-section example
SkipExample == << ExSubtotal, ExReserved, ExPerson, ExValue, ExExtra >>

PgMarker ==
    << "-", "-", "-", " ", "P", "a", "g", "e", " ", "1", " ", "-", "-",
       "-" >>

PgTitle ==
    << "R", "e", "l", "a", "ç", "ã", "o", " ", "A", "n", "u", "a", "l",
       " ", "2", "0", "2", "4" >>

PgDashes == << " ", "-", "-", "-", "-", " " >>

PgMonths ==
    << "N", "O", "M", "E", " ", "J", "A", "N", " ", "F", "E", "V", " ",
       "M", "A", "R", " ", "A", "B", "R", " ", "M", "A", "I", " ", "J",
       "U", "N", " ", "J", "U", "L", " ", "A", "G", "O", " ", "S", "E",
       "T", " ", "O", "U", "T", " ", "N", "O", "V", " ", "D", "E", "Z",
       " ", "T", "O", "T", "A", "L" >>

\* a page as extract_text_from_pdf renders it: marker, headers, content
PageExample ==
    << PgMarker, PgTitle, PgMonths, PgDashes, ExPerson, ExValue, << >>,
       ExSubtotal, ExExtra >>

\* the longest raw text made of pool lines
MaxLines == 4

SeqsUpTo(S, n) == UNION {[1..m -> S] : m \in 0..n}

CleanInputs == SeqsUpTo(CleanPool, MaxLines) \cup {SkipExample, PageExample}

\* ---- values of the variables a specification does not use ----
IdleClean ==
    /\ text = None
    /\ lines = << >>
    /\ pos = 0
    /\ cleaned_lines = << >>
    /\ skip_until_next_person = FALSE
    /\ kept = << >>
    /\ pass = 0
    /\ returned_text = None
    /\ first_text = None

IdleExtract ==
    /\ i = 0
    /\ results = << >>
    /\ spans = << >>
    /\ steps = << >>

IdleAgg ==
    /\ data = << >>
    /\ distribution_amount = NoAmount

IdleFormat ==
    /\ number = NoAmount
    /\ decimal_places = 0
    /\ formatted = << >>

IdleMain ==
    /\ pdf_files = << >>
    /\ file_idx = 0
    /\ attempted = << >>

\* ---- clean_text, called on a raw text and then on its own output ----
\* lines = text.split('\n'); cleaned_lines = []; skip_until_next_person = False
InitClean ==
    /\ pc = "clean_loop"
    /\ \E ls \in CleanInputs : text = Join(ls)
    /\ lines = Split(text)
    /\ pos = 0
    /\ cleaned_lines = << >>
    /\ skip_until_next_person = FALSE
    /\ kept = << >>
    /\ pass = 1
    /\ returned_text = None
    /\ first_text = None
    /\ IdleExtract /\ IdleAgg /\ IdleFormat /\ IdleMain

\* one iteration of `for line in lines`
CleanLine ==
    /\ pc = "clean_loop"
    /\ pos < Len(lines)
    /\ LET r == CleanLoopBody(lines[pos + 1], skip_until_next_person,
                              cleaned_lines)
       IN  /\ skip_until_next_person' = r.skip
           /\ cleaned_lines' = r.cleaned
           /\ kept' = Append(kept, r.appended)
    /\ pos' = pos + 1
    /\ UNCHANGED << pc, text, lines, pass, returned_text, first_text >>
    /\ UNCHANGED << extractVars, aggVars, formatVars, mainVars >>

\* return '\n'.join(cleaned_lines)
CleanReturn ==
    /\ pc = "clean_loop"
    /\ pos = Len(lines)
    /\ pc' = "clean_returned"
    /\ returned_text' = Join(cleaned_lines)
    /\ first_text' = IF pass = 1 THEN Join(cleaned_lines) ELSE first_text
    /\ UNCHANGED << text, lines, pos, cleaned_lines, skip_until_next_person,
                    kept, pass >>
    /\ UNCHANGED << extractVars, aggVars, formatVars, mainVars >>

\* clean_text(clean_text(text)): the second call, on the first call's result
CleanAgain ==
    /\ pc = "clean_returned"
    /\ pass = 1
    /\ pc' = "clean_loop"
    /\ pass' = 2
    /\ lines' = Split(returned_text)
    /\ pos' = 0
    /\ cleaned_lines' = << >>
    /\ skip_until_next_person' = FALSE
    /\ kept' = << >>
    /\ UNCHANGED << text, returned_text, first_text >>
    /\ UNCHANGED << extractVars, aggVars, formatVars, mainVars >>

NextClean == CleanLine \/ CleanReturn \/ CleanAgain

SpecClean == InitClean /\ [][NextClean]_vars

(***************************************************************************)
(* Properties of clean_text                                                *)
(***************************************************************************)
\* line k is one the subtotal rule acts on: it passed the five rules before it
SubtotalAt(k) == ~IsBoilerplate(lines[k]) /\ HasSubtotalMarker(lines[k])

\* line k is one the reset rule acts on: it passed every rule before it
PersonAt(k) ==
    /\ ~IsBoilerplate(lines[k])
    /\ ~HasSubtotalMarker(lines[k])
    /\ IsNextPerson(lines[k])

\* a subtotal line at or before k with no person line after it up to k
InSkipSection(k) ==
    \E m \in 1..k : SubtotalAt(m) /\ \A r \in (m + 1)..k : ~PersonAt(r)

\* C4 as stated: any line containing the marker opens the section and any
\* line with a 6-digit sequence that does not start with '239' closes it
InSkipSectionAsStated(k) ==
    \E m \in 1..k :
        /\ HasSubtotalMarker(lines[m])
        /\ \A r \in (m + 1)..k : ~IsNextPerson(lines[r])

ClosesSectionAsStated(k) ==
    /\ k > 1
    /\ InSkipSectionAsStated(k - 1)
    /\ IsNextPerson(lines[k])
    /\ ~HasSubtotalMarker(lines[k])

\* C4 (as stated): once a line containing 'TOTALIZA' has been scanned, it and
\* every later line is dropped until the first later line that has a 6-digit
\* sequence and does not start with '239'; that line is kept, and the lines
\* after it are filtered normally.
C4_SkipSectionAsStated ==
    (pass = 1) =>
        \A k \in 1..pos :
            /\ InSkipSectionAsStated(k) => ~kept[k]
            /\ ClosesSectionAsStated(k) => kept[k]
            /\ (~InSkipSectionAsStated(k) /\ ~ClosesSectionAsStated(k))
                   => (kept[k] <=> ~IsBoilerplate(lines[k]))

\* C4 (amended): a line that passes the five boilerplate rules and contains
\* 'TOTALIZA' opens the skip section; it and every later line is dropped
\* until the first later line that passes the five rules, does not contain
\* 'TOTALIZA', has a 6-digit sequence and does not start with '239'; that
\* line clears the flag and is kept, and the lines after it are kept exactly
\* when they pass the five rules and open no new section.  The example
\* yields its last three lines.
C4_SkipSection ==
    (pass = 1) =>
        /\ \A k \in 1..pos :
               kept[k] <=> (~IsBoilerplate(lines[k]) /\ ~InSkipSection(k))
        /\ skip_until_next_person = (pos > 0 /\ InSkipSection(pos))
        /\ (lines = SkipExample /\ pc = "clean_returned")
               => cleaned_lines = << ExPerson, ExValue, ExExtra >>

\* a returned first pass in which a subtotal line opened the section, a
\* reserved-prefix line and an ordinary line were dropped inside it, a person
\* line closed it and was kept, and a later ordinary line was kept
C4_Witness ==
    /\ pass = 1
    /\ pc = "clean_returned"
    /\ \E m, d, r, a \in 1..pos :
           /\ m < d /\ d < r /\ r < a
           /\ SubtotalAt(m)
           /\ StartsWith(lines[d], ReservedPrefix) /\ HasSixDigits(lines[d])
           /\ ~kept[d]
           /\ PersonAt(r) /\ kept[r]
           /\ \A x \in (m + 1)..(r - 1) : ~kept[x]
           /\ ~IsNextPerson(lines[a]) /\ kept[a]

\* C5: clean_text(clean_text(t)) = clean_text(t): the second call returns the
\* text the first call returned.
C5_Idempotent ==
    (pass = 2 /\ pc = "clean_returned") => returned_text = first_text

\* a returned second pass over a first result of two lines or more, after a
\* first pass that dropped a subtotal line and the lines of its skip section
C5_Witness ==
    /\ pass = 2
    /\ pc = "clean_returned"
    /\ Len(lines) >= 2
    /\ Len(Split(text)) >= Len(lines) + 2
    /\ \E k \in 1..Len(Split(text)) : Split(text)[k] = LnSubtotal
    /\ \E k \in 1..Len(lines) : IsNextPerson(lines[k])

(***************************************************************************)
(* format_brazilian_number, called on its own                              *)
(***************************************************************************)
FormatWholes == {0, 7, 42, 999, 1000, 12345, 999999, 1000000, 1234567}

\* fractional parts, as << numerator, denominator >>
FormatFractions ==
    { << 0, 1 >>, << 1, 2 >>, << 1, 8 >>, << 1, 3 >>, << 999, 1000 >>,
      << 1, 200 >> }

FormatNumbers ==
    { Rat(w * f[2] + f[1], f[2]) : w \in FormatWholes, f \in FormatFractions }

\* the largest decimal_places tried
MaxPlaces == 6

InitFormat ==
    /\ pc = "format_call"
    /\ number \in FormatNumbers
    /\ decimal_places \in 0..MaxPlaces
    /\ formatted = << >>
    /\ IdleClean /\ IdleExtract /\ IdleAgg /\ IdleMain

Format ==
    /\ pc = "format_call"
    /\ \E tie_up \in BOOLEAN :
           formatted' = format_brazilian_number(number, decimal_places, tie_up)
    /\ pc' = "format_returned"
    /\ UNCHANGED << number, decimal_places >>
    /\ UNCHANGED << cleanVars, extractVars, aggVars, mainVars >>

NextFormat == Format

SpecFormat == InitFormat /\ [][NextFormat]_vars

\* the text before the ',' of a formatted number
IntegerText(s) == SubSeq(s, 1, Len(s) - decimal_places - 1)

\* the text after it
DecimalText(s) == SubSeq(s, Len(s) - decimal_places + 1, Len(s))

\* the whole part of the number rounded to decimal_places decimals is w
RoundsToWhole(q, w) ==
    LET floor == q.num \div q.den
        frac == Rat(q.num % q.den, q.den)
        half == Rat(1, 2 * Pow10(decimal_places))
    IN  \/ w = floor /\ RatLeq(RatAdd(frac, half), Rat(1, 1))
        \/ w = floor + 1 /\ RatLeq(Rat(1, 1), RatAdd(frac, half))

FormatExampleA ==
    << "1", ".", "2", "3", "4", ".", "5", "6", "7", ",", "5", "0" >>

\* C9: for a non-negative number and d >= 1 decimal places the result is the
\* integer part in groups separated by '.', each of 3 digits but the leftmost
\* of 1 to 3, then ',' and d digits; without the '.' the integer part is the
\* ungrouped whole part; 1234567.5 gives "1.234.567,50" with 2 places and 0
\* gives "0,000000" with 6.
C9_Grouping ==
    (pc = "format_returned" /\ decimal_places >= 1) =>
        LET whole == IntegerText(formatted)
            n == Len(whole)
        IN  /\ Len(formatted) >= decimal_places + 2
            /\ formatted[Len(formatted) - decimal_places] = ","
            /\ \A k \in 1..decimal_places :
                   DecimalText(formatted)[k] \in Digits
            /\ \A k \in 1..n :
                   IF (n - k + 1) % 4 = 0 THEN whole[k] = "."
                   ELSE whole[k] \in Digits
            /\ whole[1] \in Digits
            /\ \E w \in {number.num \div number.den,
                         number.num \div number.den + 1} :
                   /\ RoundsToWhole(number, w)
                   /\ RemoveChar(whole, ".") = ToChars(IntDigits(w))
            /\ (number = Rat(2469135, 2) /\ decimal_places = 2)
                   => formatted = FormatExampleA
            /\ (number = Zero /\ decimal_places = 6)
                   => formatted = ZeroPercentage

\* 1234567.5 formatted with 2 places: three groups and a padded decimal
C9_Witness ==
    /\ pc = "format_returned"
    /\ number = Rat(2469135, 2)
    /\ decimal_places = 2
    /\ formatted = FormatExampleA

(***************************************************************************)
(* calculate_percentages_and_distribution, called on its own               *)
(***************************************************************************)
ValZero == << "0", ",", "0", "0" >>

ValOne == << "1", ",", "0", "0" >>

ValSmall == << "2", ",", "5", "0" >>

ValGrouped == << "1", ".", "2", "3", "4", ",", "5", "6" >>

\* float() raises ValueError on "1.2.3"
ValMalformed == << "1", ",", "2", ",", "3" >>

ValEmpty == << >>

AggValues == {ValZero, ValOne, ValSmall, ValGrouped, ValMalformed, ValEmpty}

\* no amount, and the amounts "0", "1,00" and "100,07"
AggAmounts == {NoAmount, Zero, Rat(1, 1), Rat(10007, 100)}

\* the largest record set
MaxRecords == 3

\* the k-th record of a set: its identity fields tell its place
PersonRecord(k, value) ==
    [name |-> << "P", DigitChars[k + 1] >>,
     code |-> << "0", "0", "0", "0", "0", DigitChars[k + 1] >>,
     role |-> << "R" >>,
     value |-> value]

InitAgg ==
    /\ pc = "agg_call"
    /\ \E vs \in SeqsUpTo(AggValues, MaxRecords) :
           results = [k \in 1..Len(vs) |-> PersonRecord(k, vs[k])]
    /\ distribution_amount \in AggAmounts
    /\ data = << >>
    /\ i = 0 /\ spans = << >> /\ steps = << >>
    /\ IdleClean /\ IdleFormat /\ IdleMain

\* data = calculate_percentages_and_distribution(data, distribution_amount)
Calculate ==
    /\ pc = "agg_call"
    /\ \E ties \in [1..Len(results) -> BOOLEAN] :
           data' = calculate_percentages_and_distribution(
                       results, distribution_amount, ties)
    /\ pc' = "agg_returned"
    /\ UNCHANGED << distribution_amount, extractVars >>
    /\ UNCHANGED << cleanVars, formatVars, mainVars >>

NextAgg == Calculate

SpecAgg == InitAgg /\ [][NextAgg]_vars

RECURSIVE SumField(_, _)
\* the sum of field f over the records of items that have it
SumField(items, f) ==
    IF items = << >> THEN Zero
    ELSE LET rest == SumField(SubSeq(items, 1, Len(items) - 1), f)
             last == items[Len(items)]
         IN  IF f \in DOMAIN last THEN RatAdd(rest, last[f]) ELSE rest

RECURSIVE SumText(_, _)
\* the sum of the formatted field f over the records of items that have it
SumText(items, f) ==
    IF items = << >> THEN Zero
    ELSE LET rest == SumText(SubSeq(items, 1, Len(items) - 1), f)
             last == items[Len(items)]
         IN  IF f \in DOMAIN last THEN RatAdd(rest, ParseValue(last[f]))
             ELSE rest

AllParse(items) ==
    \A k \in 1..Len(items) : HasValue(items[k]) /\ Parses(items[k].value)

\* the sum of the parsed values, computed from the input records
ValueTotal(items) == SumText(items, "value")

\* 1e-6 relative error on 100
PercentTolerance == Rat(1, 10000)

\* the rounding error allowed on n totals: n x 0.01
TotalTolerance(n) == Rat(n, 100)

\* C2 (as stated): for every non-empty record set whose values all parse, zero
\* values included, the percentages sum to 100 within 1e-6 relative error.
C2_PercentSumAsStated ==
    (pc = "agg_returned" /\ results # << >> /\ AllParse(results)) =>
        RatWithin(SumField(data, "percentage_float"), Hundred,
                  PercentTolerance)

\* C2 (amended): for every non-empty record set whose values all parse and
\* sum to more than zero, the percentages sum to 100 within 1e-6 relative
\* error, and so do the formatted percentages.
C2_PercentSum ==
    (/\ pc = "agg_returned"
     /\ results # << >>
     /\ AllParse(results)
     /\ ValueTotal(results).num > 0) =>
        /\ RatWithin(SumField(data, "percentage_float"), Hundred,
                     PercentTolerance)
        /\ RatWithin(SumText(data, "percentage"), Hundred, PercentTolerance)

\* three records with parsed values, one of them zero, and a positive total
C2_Witness ==
    /\ pc = "agg_returned"
    /\ Len(results) = 3
    /\ AllParse(results)
    /\ \E k \in 1..3 : results[k].value = ValZero
    /\ \E k \in 1..3 : results[k].value = ValGrouped
    /\ ValueTotal(results).num > 0
    /\ \A k \in 1..3 : "percentage_float" \in DOMAIN data[k]

\* C3 (as stated): with a distribution amount D, for every non-empty record
\* set of parsed values, an all-zero one included, the totals sum to D within
\* record count x 0.01.
C3_DistributionAsStated ==
    (/\ pc = "agg_returned"
     /\ results # << >>
     /\ AllParse(results)
     /\ distribution_amount # NoAmount) =>
        /\ RatWithin(SumField(data, "total_float"), distribution_amount,
                     TotalTolerance(Len(data)))
        /\ RatWithin(SumText(data, "total"), distribution_amount,
                     TotalTolerance(Len(data)))

\* C3 (amended): with a distribution amount D >= 0, for every non-empty record
\* set of parsed values that sum to more than zero, the total_float shares
\* and the formatted totals each sum to D within record count x 0.01.
C3_Distribution ==
    (/\ pc = "agg_returned"
     /\ results # << >>
     /\ AllParse(results)
     /\ ValueTotal(results).num > 0
     /\ distribution_amount # NoAmount) =>
        /\ RatWithin(SumField(data, "total_float"), distribution_amount,
                     TotalTolerance(Len(data)))
        /\ RatWithin(SumText(data, "total"), distribution_amount,
                     TotalTolerance(Len(data)))

\* three records share "100,07" and the formatted totals do not add up to
\* it exactly
C3_Witness ==
    /\ pc = "agg_returned"
    /\ Len(results) = 3
    /\ AllParse(results)
    /\ ValueTotal(results).num > 0
    /\ distribution_amount = Rat(10007, 100)
    /\ \A k \in 1..3 : "total" \in DOMAIN data[k]
    /\ SumText(data, "total") # distribution_amount

\* C8: an empty record set is returned unchanged; when the values sum to zero
\* every record with a value gets percentage "0,000000" (0.0) and, with a
\* distribution amount, total "0,00" (0.0); the records keep their count,
\* order and input fields.
C8_Degenerate ==
    (pc = "agg_returned") =>
        /\ results = << >> => data = << >>
        /\ Len(data) = Len(results)
        /\ \A k \in 1..Len(results) :
               \A f \in DOMAIN results[k] : data[k][f] = results[k][f]
        /\ calculate_total_value(results).num = 0 =>
               \A k \in 1..Len(results) :
                   HasValue(results[k]) =>
                       /\ {"percentage", "percentage_float"}
                              \subseteq DOMAIN data[k]
                       /\ data[k].percentage = ZeroPercentage
                       /\ data[k].percentage_float = Zero
                       /\ distribution_amount # NoAmount =>
                              /\ {"total", "total_float"}
                                     \subseteq DOMAIN data[k]
                              /\ data[k].total = ZeroTotal
                              /\ data[k].total_float = Zero

\* two zero-valued records with a positive amount to distribute
C8_Witness ==
    /\ pc = "agg_returned"
    /\ Len(results) = 2
    /\ \A k \in 1..2 : results[k].value = ValZero
    /\ distribution_amount = Rat(1, 1)
    /\ \A k \in 1..2 : data[k].total = ZeroTotal

(***************************************************************************)
(* extract_data_from_txt                                                   *)
(***************************************************************************)
ExtractHeaders ==
    { << "R", "e", "l", "a", "ç", "ã", "o" >>,
      << "C", "O", "O", "P", "E", "R", "A", "T", "I", "V", "A" >>,
      << "R", "u", "b", "r", "i", "c", "a" >>,
      << "T", "R", "A", "B", "A", "L", "H", "A", "D", "O", "R" >>,
      << "P", "á", "g", "i", "n", "a" >> }

\* the pre-pass keeps the stripped line
PrefilterKeeps(line) ==
    /\ line # << >>
    /\ ~StartsWith(line, << "_" >>)
    /\ ~StartsWith(line, << "-" >>)
    /\ ~\E header \in ExtractHeaders : Contains(line, header)

\* the pre-pass: cleaned_lines of the stripped lines that are kept
RECURSIVE Prefilter(_)
Prefilter(ls) ==
    IF ls = << >> THEN << >>
    ELSE LET line == Strip(ls[1])
         IN  IF PrefilterKeeps(line) THEN << line >> \o Prefilter(Tail(ls))
             ELSE Prefilter(Tail(ls))

\* [A-Za-zÀ-ÖØ-öø-ÿ\s]
NameChars == Letters \cup Whitespace

\* the positions p at which person_pattern, started at s, can place (\d{6}):
\* name characters from s to p-1, the last of them whitespace after one more
\* at least, six digits, whitespace, and one more character at least
CodePositions(line, s) ==
    { p \in (s + 2)..(Len(line) - 7) :
        /\ \A k \in s..(p - 1) : line[k] \in NameChars
        /\ line[p - 1] \in Whitespace
        /\ \A k \in p..(p + 5) : line[k] \in Digits
        /\ line[p + 6] \in Whitespace }

\* the positions at which re.search can start a match of person_pattern
MatchStarts(line) == {s \in 1..Len(line) : CodePositions(line, s) # {}}

\* person_match is not None
PersonMatches(line) == MatchStarts(line) # {}

Least(S) == CHOOSE x \in S : \A y \in S : x <= y

\* group(1).strip(), group(2).strip(), group(3).strip(): re.search takes the
\* leftmost start, the lazy name gives way to the first code it can reach
PersonFields(line) ==
    LET s == Least(MatchStarts(line))
        p == Least(CodePositions(line, s))
    IN  [name |-> Strip(SubSeq(line, s, p - 1)),
         code |-> Strip(SubSeq(line, p, p + 5)),
         role |-> Strip(SubSeq(line, p + 6, Len(line)))]

\* [\d\.]+,\d+ matches the whole of t
IsLocaleNumber(t) ==
    \E c \in 2..(Len(t) - 1) :
        /\ t[c] = ","
        /\ \A k \in 1..(c - 1) : t[k] \in Digits \cup {"."}
        /\ \A k \in (c + 1)..Len(t) : t[k] \in Digits

\* the text after the last whitespace of the line (the line itself without)
LastToken(line) ==
    LET ws == {k \in 1..Len(line) : line[k] \in Whitespace}
    IN  IF ws = {} THEN line
        ELSE SubSeq(line, (CHOOSE k \in ws : \A m \in ws : m <= k) + 1,
                    Len(line))

\* ValueMatches without the \s+ of value_pattern
ValueMatches_NoSpace(line) == IsLocaleNumber(LastToken(line))

\* value_match is not None, for value_pattern = r'.*\s+([\d\.]+,\d+)$': the
\* number has no whitespace in it, so it is the text after the last whitespace
ValueMatches(line) ==
    /\ \E k \in 1..Len(line) : line[k] \in Whitespace
    /\ IsLocaleNumber(LastToken(line))

\* value_match.group(1).strip()
ValueField(line) == Strip(LastToken(line))

\* the cursor after a block with two lines less
NextCursorAfterBlock_Two(cursor) == cursor + 2

\* i += 3
NextCursorAfterBlock(cursor) == cursor + 3

\* the cursor after a block's stride on a line that is no person line
NextCursorAfterNoise_Three(cursor) == cursor + 3

\* i += 1
NextCursorAfterNoise(cursor) == cursor + 1

\* ---- the lines the model's text files are made of ----
TxtIdentity ==
    << "A", "N", "A", " ", "1", "1", "1", "1", "1", "1", " ", "A", "U",
       "X" >>

TxtValue == << "P", " ", "1", ",", "5", "0" >>

TxtBareValue == << "2", ",", "5", "0" >>

TxtNoise == << "x" >>

TxtNoiseY == << "y" >>

ScJoao ==
    << "J", "O", "A", "O", " ", "S", "I", "L", "V", "A", " ", "1", "1",
       "1", "1", "1", "1", " ", "O", "P", "E", "R", "A", "D", "O", "R" >>

ScJoaoBare == << "1", ".", "2", "3", "4", ",", "5", "6" >>

ScMaria ==
    << "M", "A", "R", "I", "A", " ", "S", "O", "U", "Z", "A", " ", "2",
       "2", "2", "2", "2", "2", " ", "A", "N", "A", "L", "I", "S", "T",
       "A" >>

ScMariaBare == << "2", ".", "0", "0", "0", ",", "0", "0" >>

ScJoaoValue ==
    << "P", "R", "O", "D", " ", "1", ".", "2", "3", "4", ",", "5", "6" >>

ScMariaValue ==
    << "P", "R", "O", "D", " ", "1", "0", ",", "0", "0", " ", "2", ".",
       "0", "0", "0", ",", "0", "0" >>

NzHeader == << "R", "u", "b", "r", "i", "c", "a", " ", "X" >>

NzDashes == << "-", "-", "-", "-", "-" >>

NzBlank == << " ", " " >>

NzIdentityValue ==
    << " ", "A", "N", "A", " ", "1", "1", "1", "1", "1", "1", " ", "1",
       ",", "5", "0" >>

NzRule == << "_" >>

NameJoao == << "J", "O", "A", "O", " ", "S", "I", "L", "V", "A" >>

NameMaria == << "M", "A", "R", "I", "A", " ", "S", "O", "U", "Z", "A" >>

RoleJoao == << "O", "P", "E", "R", "A", "D", "O", "R" >>

RoleMaria == << "A", "N", "A", "L", "I", "S", "T", "A" >>

PctJoao == << "3", "8", ",", "1", "6", "7", "7", "8", "8" >>

PctMaria == << "6", "1", ",", "8", "3", "2", "2", "1", "2" >>


TxtPool == {TxtIdentity, TxtValue, TxtBareValue, TxtNoise}

\* the end-to-end scenario of the specification: the values are whole lines
BareScenario ==
    << ScJoao, ScJoaoBare, TxtNoise, ScMaria, ScMariaBare, TxtNoiseY >>

\* the same records with value lines as the source document has them
ValueScenario ==
    << ScJoao, ScJoaoValue, TxtNoise, ScMaria, ScMariaValue, TxtNoiseY >>

\* lines the pre-pass drops, a noise line before the first person, a person
\* whose value line is noise, and an identity line that ends with a number
NoisyScenario ==
    << NzHeader, NzDashes, TxtNoise, NzBlank, ScMaria, ScMariaValue, NzRule,
       TxtNoise, ScJoao, TxtNoise, TxtNoise, NzIdentityValue, TxtValue,
       TxtNoise >>

TxtScenarios == {BareScenario, ValueScenario, NoisyScenario}

\* the longest text file made of pool lines
MaxTxtLines == 6

\* ---- process_pdf_to_csv from the text file on ----
\* lines = file.readlines(); results = [] (strip() removes a line's '\n')
Init ==
    /\ pc = "extract_read"
    /\ \/ /\ lines \in SeqsUpTo(TxtPool, MaxTxtLines)
          /\ distribution_amount = NoAmount
       \/ /\ lines \in TxtScenarios
          /\ distribution_amount \in AggAmounts
    /\ cleaned_lines = << >>
    /\ i = 0
    /\ results = << >>
    /\ spans = << >>
    /\ steps = << >>
    /\ data = << >>
    /\ text = None /\ pos = 0 /\ skip_until_next_person = FALSE
    /\ kept = << >> /\ pass = 0 /\ returned_text = None /\ first_text = None
    /\ IdleFormat /\ IdleMain

extractFrame ==
    << text, lines, pos, skip_until_next_person, kept, pass, returned_text,
       first_text, data, distribution_amount, formatVars, mainVars >>

\* the pre-pass over lines; i = 0
ReadLines ==
    /\ pc = "extract_read"
    /\ cleaned_lines' = Prefilter(lines)
    /\ pc' = "extract_loop"
    /\ UNCHANGED << i, results, spans, steps, extractFrame >>

InLoop == pc = "extract_loop" /\ i < Len(cleaned_lines) - 2

\* cleaned_lines[i], cleaned_lines[i + 1]: Python counts from 0
person_line == cleaned_lines[i + 1]
produtividade_line == cleaned_lines[i + 2]

\* a loop iteration: person_match and value_match
EmitRecord ==
    /\ InLoop
    /\ PersonMatches(person_line)
    /\ ValueMatches(produtividade_line)
    /\ results' = Append(results,
                         [name |-> PersonFields(person_line).name,
                          code |-> PersonFields(person_line).code,
                          role |-> PersonFields(person_line).role,
                          value |-> ValueField(produtividade_line)])
    /\ i' = NextCursorAfterBlock(i)
    /\ spans' = Append(spans, i)
    /\ steps' = Append(steps, i)
    /\ UNCHANGED << pc, cleaned_lines, extractFrame >>

\* a loop iteration: person_match, no value_match
DropBlock ==
    /\ InLoop
    /\ PersonMatches(person_line)
    /\ ~ValueMatches(produtividade_line)
    /\ i' = NextCursorAfterBlock(i)
    /\ steps' = Append(steps, i)
    /\ UNCHANGED << pc, cleaned_lines, results, spans, extractFrame >>

\* a loop iteration: no person_match
SkipLine ==
    /\ InLoop
    /\ ~PersonMatches(person_line)
    /\ i' = NextCursorAfterNoise(i)
    /\ steps' = Append(steps, i)
    /\ UNCHANGED << pc, cleaned_lines, results, spans, extractFrame >>

\* return results
ExtractReturn ==
    /\ pc = "extract_loop"
    /\ ~(i < Len(cleaned_lines) - 2)
    /\ pc' = "extract_returned"
    /\ UNCHANGED << cleaned_lines, extractVars, extractFrame >>

\* save_to_csv(data, csv_output, distribution_amount): the records written
SaveToCsv ==
    /\ pc = "extract_returned"
    /\ \E ties \in [1..Len(results) -> BOOLEAN] :
           data' = IF results = << >> THEN << >>
                   ELSE calculate_percentages_and_distribution(
                            results, distribution_amount, ties)
    /\ pc' = "csv_saved"
    /\ UNCHANGED << text, lines, pos, skip_until_next_person, kept, pass,
                    returned_text, first_text, cleaned_lines, extractVars,
                    distribution_amount, formatVars, mainVars >>

Next ==
    \/ ReadLines
    \/ EmitRecord
    \/ DropBlock
    \/ SkipLine
    \/ ExtractReturn
    \/ SaveToCsv

Spec == Init /\ [][Next]_vars

(***************************************************************************)
(* Properties of extract_data_from_txt                                     *)
(***************************************************************************)
\* the cursor after the k-th loop step
CursorAfter(k) == IF k < Len(steps) THEN steps[k + 1] ELSE i

Emitted(s) == \E j \in 1..Len(spans) : spans[j] = s

Scanning == pc \in {"extract_loop", "extract_returned", "csv_saved"}

\* a suffix of the line is a locale-format number
EndsWithNumber(line) ==
    \E k \in 1..Len(line) : IsLocaleNumber(SubSeq(line, k, Len(line)))

\* the line ends with whitespace and the locale-format number v
EndsWithSpacedNumber(line, v) ==
    /\ Len(v) < Len(line)
    /\ SubSeq(line, Len(line) - Len(v) + 1, Len(line)) = v
    /\ line[Len(line) - Len(v)] \in Whitespace
    /\ IsLocaleNumber(v)

Suffixes(line) == {SubSeq(line, k, Len(line)) : k \in 1..Len(line)}

CodeJoao == << "1", "1", "1", "1", "1", "1" >>

CodeMaria == << "2", "2", "2", "2", "2", "2" >>

\* 38.147805 and 61.852195
PctJoaoAsStated == Rat(38147805, 1000000)

PctMariaAsStated == Rat(61852195, 1000000)

\* C1 (as stated): a matched identity line followed by a line that ends with
\* a locale-format number, the number being the whole line included, emits a
\* record with that number; the six lines of the end-to-end scenario yield
\* two records with percentages about 38.147805 and 61.852195.
C1_EmissionAsStated ==
    Scanning =>
        /\ \A k \in 1..Len(steps) :
               (/\ PersonMatches(cleaned_lines[steps[k] + 1])
                /\ EndsWithNumber(cleaned_lines[steps[k] + 2]))
                   => \E j \in 1..Len(spans) :
                          /\ spans[j] = steps[k]
                          /\ IsLocaleNumber(results[j].value)
        /\ (lines = BareScenario /\ pc = "csv_saved") =>
               /\ Len(data) = 2
               /\ data[1].name = NameJoao /\ data[2].name = NameMaria
               /\ RatWithin(data[1].percentage_float, PctJoaoAsStated,
                            Rat(1, 1000000))
               /\ RatWithin(data[2].percentage_float, PctMariaAsStated,
                            Rat(1, 1000000))

\* C1 (amended): a matched identity line followed by a line that ends with
\* whitespace and a locale-format number emits a record with the identity
\* fields and that number; when the number is the whole line no record is
\* emitted.  The six lines of the scenario yield no record; with the value
\* lines "PROD 1.234,56" and "PROD 10,00 2.000,00" they yield exactly two
\* records, in that order, with percentages "38,167788" and "61,832212"
\* that sum to 100.
C1_Emission ==
    Scanning =>
        /\ \A k \in 1..Len(steps) :
               LET s == steps[k]
                   id == cleaned_lines[s + 1]
                   val == cleaned_lines[s + 2]
               IN  PersonMatches(id) =>
                       /\ \A v \in Suffixes(val) :
                              EndsWithSpacedNumber(val, v) =>
                                  \E j \in 1..Len(spans) :
                                      /\ spans[j] = s
                                      /\ results[j].value = v
                                      /\ results[j].name = PersonFields(id).name
                                      /\ results[j].code = PersonFields(id).code
                                      /\ results[j].role = PersonFields(id).role
                       /\ IsLocaleNumber(val) => ~Emitted(s)
        /\ (lines = BareScenario /\ pc = "csv_saved") => data = << >>
        /\ (lines = ValueScenario /\ pc = "csv_saved") =>
               /\ Len(data) = 2
               /\ data[1].name = NameJoao /\ data[1].code = CodeJoao
               /\ data[1].role = RoleJoao /\ data[1].value = ScJoaoBare
               /\ data[1].percentage = PctJoao
               /\ data[2].name = NameMaria /\ data[2].code = CodeMaria
               /\ data[2].role = RoleMaria /\ data[2].value = ScMariaBare
               /\ data[2].percentage = PctMaria
               /\ SumField(data, "percentage_float") = Hundred

\* the two records of the scenario with spaced value lines, saved
C1_Witness ==
    /\ pc = "csv_saved"
    /\ lines = ValueScenario
    /\ Len(data) = 2
    /\ data[1].percentage = PctJoao

\* C6: each loop step moves the cursor by 1 or by 3; every record is built
\* from the lines i, i+1, i+2 of the cleaned sequence, all inside it; the
\* spans of two records are disjoint.
C6_Stride ==
    Scanning =>
        /\ \A k \in 1..Len(steps) : CursorAfter(k) - steps[k] \in {1, 3}
        /\ Len(results) = Len(spans)
        /\ \A j \in 1..Len(spans) :
               /\ spans[j] >= 0
               /\ spans[j] + 2 < Len(cleaned_lines)
               /\ Contains(cleaned_lines[spans[j] + 1], results[j].code)
               /\ results[j].value = LastToken(cleaned_lines[spans[j] + 2])
        /\ \A a, b \in 1..Len(spans) : a < b => spans[a] + 2 < spans[b]

\* two records emitted, with a step of 1 and a step of 3 among the steps
C6_Witness ==
    /\ pc = "extract_returned"
    /\ Len(spans) = 2
    /\ \E k \in 1..Len(steps) : CursorAfter(k) - steps[k] = 1
    /\ \E k \in 1..Len(steps) : CursorAfter(k) - steps[k] = 3

\* no suffix of the line is a locale-format number
NoTrailingNumber(line) == ~EndsWithNumber(line)

\* C10: a step at a matched identity line whose next line has no trailing
\* locale number emits nothing and moves the cursor by 3, so the two lines
\* after it are never tried as identity lines; a step at a line that is no
\* identity line emits nothing and moves the cursor by 1; the records
\* emitted before stay as they are.
C10_ParseMiss ==
    [][ InLoop =>
          /\ (/\ PersonMatches(person_line)
              /\ NoTrailingNumber(produtividade_line))
                 => /\ i' = i + 3
                    /\ results' = results
                    /\ pc' = "extract_loop"
                    /\ \A k \in 1..Len(steps') :
                           steps'[k] \notin {i + 1, i + 2}
          /\ ~PersonMatches(person_line)
                 => /\ i' = i + 1
                    /\ results' = results
                    /\ pc' = "extract_loop" ]_vars

\* after a record was emitted, a block was dropped for want of a value and a
\* noise line was stepped over
C10_Witness ==
    /\ pc = "extract_returned"
    /\ Len(results) >= 1
    /\ \E k \in 1..Len(steps) :
           /\ steps[k] > spans[1]
           /\ PersonMatches(cleaned_lines[steps[k] + 1])
           /\ NoTrailingNumber(cleaned_lines[steps[k] + 2])
           /\ ~Emitted(steps[k])
    /\ \E k \in 1..Len(steps) : ~PersonMatches(cleaned_lines[steps[k] + 1])

(***************************************************************************)
(* main: a directory of documents                                          *)
(***************************************************************************)
\* what process_pdf_to_csv does on a document: it returns, or process_pdf,
\* extract_data_from_txt or save_to_csv raises
DocOutcomes == {"returns", "pdf_raises", "txt_raises", "csv_raises"}

\* the largest directory
MaxFiles == 3

\* pdf_files = list(pdf_path.glob('*.pdf'))
InitMain ==
    /\ pc = "main_dir"
    /\ pdf_files \in SeqsUpTo(DocOutcomes, MaxFiles)
    /\ file_idx = 0
    /\ attempted = << >>
    /\ IdleClean /\ IdleExtract /\ IdleAgg /\ IdleFormat

mainFrame == << cleanVars, extractVars, aggVars, formatVars >>

\* if not pdf_files: print(...); return
NoPdfFiles ==
    /\ pc = "main_dir"
    /\ pdf_files = << >>
    /\ pc' = "main_returned"
    /\ UNCHANGED << mainVars, mainFrame >>

\* an iteration of `for pdf_file in pdf_files` whose call returns
ProcessReturns ==
    /\ pc = "main_dir"
    /\ file_idx < Len(pdf_files)
    /\ pdf_files[file_idx + 1] = "returns"
    /\ attempted' = Append(attempted, file_idx + 1)
    /\ file_idx' = file_idx + 1
    /\ UNCHANGED << pc, pdf_files, mainFrame >>

\* an iteration whose call raises: nothing catches the exception, which
\* leaves the loop and main
ProcessRaises ==
    /\ pc = "main_dir"
    /\ file_idx < Len(pdf_files)
    /\ pdf_files[file_idx + 1] # "returns"
    /\ attempted' = Append(attempted, file_idx + 1)
    /\ file_idx' = file_idx + 1
    /\ pc' = "main_raised"
    /\ UNCHANGED << pdf_files, mainFrame >>

\* the loop is exhausted
MainReturns ==
    /\ pc = "main_dir"
    /\ pdf_files # << >>
    /\ file_idx = Len(pdf_files)
    /\ pc' = "main_returned"
    /\ UNCHANGED << mainVars, mainFrame >>

NextMain == NoPdfFiles \/ ProcessReturns \/ ProcessRaises \/ MainReturns

SpecMain == InitMain /\ [][NextMain]_vars

\* C7: when main ends, process_pdf_to_csv was called on every document of the
\* directory, whether or not an earlier document's call raised.
C7_IsolateAndContinue ==
    (pc \in {"main_returned", "main_raised"}) =>
        attempted = [k \in 1..Len(pdf_files) |-> k]

====
